---- MODULE Spec2Model ----
(***************************************************************************)
(* A model of src/main.rs: the command dispatcher `main`, the hand-written *)
(* Bencode decoder `decode_bencoded_value` (with `safe_char_at`), and the  *)
(* info-mode helpers `calculate_info_hash` and `extract_piece_hashes`.     *)
(*                                                                         *)
(* A Rust &str is modelled as the sequence of its UTF-8 bytes (naturals);  *)
(* a char is the sub-sequence of bytes that encodes it.  Byte offsets are  *)
(* 0-based as in the source; TLA+ sequences are 1-based, so byte offset k  *)
(* is element k+1.                                                         *)
(***************************************************************************)
EXTENDS Integers, Sequences, FiniteSets, TLC

VARIABLES
    args,          \* std::env::args() after the program name: << command, operand >>
    src,           \* how the operand was built (the value encoded, the pairs written)
    pc,            \* where main or the decoder stands
    arg,           \* the slice given to the next call of decode_bencoded_value
    stack,         \* the activations of decode_bencoded_value inside a list or map loop
    ret,           \* what the last call of decode_bencoded_value returned
    torrent,       \* the Torrent de::from_bytes produced
    info_hash,     \* the result of calculate_info_hash
    piece_hashes,  \* the result of extract_piece_hashes
    printed,       \* how many of piece_hashes the final loop has written
    stdout,        \* the lines written with println!
    stderr,        \* the diagnostics written with eprintln!, a panic, or main's Err
    status         \* the exit status, Running until the process ends

vars == << args, src, pc, arg, stack, ret, torrent, info_hash, piece_hashes,
           printed, stdout, stderr, status >>

(***************************************************************************)
(* Bytes and characters                                                    *)
(***************************************************************************)
\* ':' (main.rs:92), 'e' (112, 124, 139), 'i' (110), 'l' (118), 'd' (134)
Colon == 58
LowerE == 101
LowerI == 105
LowerL == 108
LowerD == 100

\* char::is_ascii_digit: '0'..='9'
AsciiDigits == 48..57
\* the signs i64::from_str accepts in front of the digits
Minus == {45}
Plus == {43}

\* UTF-8: a byte 10xxxxxx continues a character, any other byte starts one
IsContinuation(b) == b \in 128..191

\* str::len: the length in bytes
ByteLen(s) == Len(s)

\* str::is_char_boundary(k), k a byte offset
IsCharBoundary(s, k) ==
    \/ k = 0
    \/ k = Len(s)
    \/ k < Len(s) /\ ~IsContinuation(s[k + 1])

\* the byte offsets at which the characters of s start, in order
CharStarts(s) == { k \in 0..(Len(s) - 1) : ~IsContinuation(s[k + 1]) }

\* s.chars().count()
CharCount(s) == Cardinality(CharStarts(s))

\* the byte offset of the char_index-th character (0-based); -1 when there is none
NthCharStart(s, char_index) ==
    IF char_index < 0 \/ char_index >= CharCount(s) THEN -1
    ELSE CHOOSE k \in CharStarts(s) :
            Cardinality({ j \in CharStarts(s) : j < k }) = char_index

\* the character that starts at byte offset k: its bytes up to the next boundary
CharFrom(s, k) ==
    LET next == CHOOSE j \in (k + 1)..Len(s) :
                   /\ IsCharBoundary(s, j)
                   /\ \A m \in (k + 1)..(j - 1) : ~IsCharBoundary(s, m)
    IN SubSeq(s, k + 1, next)

NoChar == << >>

\* s.chars().nth(char_index): NoChar for None
CharsNth(s, char_index) ==
    IF NthCharStart(s, char_index) < 0 THEN NoChar
    ELSE CharFrom(s, NthCharStart(s, char_index))

\* &s[from..]: defined only when from is a char boundary within s
CanSliceFrom(s, from) == from <= Len(s) /\ IsCharBoundary(s, from)
SliceFrom(s, from) == SubSeq(s, from + 1, Len(s))

\* &s[from..to]
CanSlice(s, from, to) ==
    /\ from <= to /\ to <= Len(s)
    /\ IsCharBoundary(s, from) /\ IsCharBoundary(s, to)
Slice(s, from, to) == SubSeq(s, from + 1, to)

\* str::find(byte): the byte offset of the first occurrence of an ASCII char; -1 for None
Find(s, b) ==
    IF \E k \in 1..Len(s) : s[k] = b
    THEN (CHOOSE k \in 1..Len(s) : s[k] = b /\ \A j \in 1..(k - 1) : s[j] # b) - 1
    ELSE -1

RECURSIVE DecimalValue(_)
DecimalValue(ds) ==
    IF ds = << >> THEN 0
    ELSE 10 * DecimalValue(SubSeq(ds, 1, Len(ds) - 1)) + (ds[Len(ds)] - 48)

AllDigits(ds) == ds # << >> /\ \A k \in 1..Len(ds) : ds[k] \in AsciiDigits

\* <usize as FromStr>::from_str: an optional '+', then one or more digits
ParseUsize(s) ==
    LET ds == IF s # << >> /\ s[1] \in Plus THEN Tail(s) ELSE s
    IN IF AllDigits(ds) THEN [ok |-> TRUE, n |-> DecimalValue(ds)]
       ELSE [ok |-> FALSE, n |-> 0]

\* <i64 as FromStr>::from_str: an optional '+' or '-', then one or more digits
ParseI64(s) ==
    LET signed == s # << >> /\ s[1] \in (Plus \cup Minus)
        ds == IF signed THEN Tail(s) ELSE s
    IN IF ~AllDigits(ds) THEN [ok |-> FALSE, n |-> 0]
       ELSE IF signed /\ s[1] \in Minus THEN [ok |-> TRUE, n |-> 0 - DecimalValue(ds)]
       ELSE [ok |-> TRUE, n |-> DecimalValue(ds)]

(***************************************************************************)
(* serde_json::Value, the decoder's result                                 *)
(***************************************************************************)
JString(s) == [t |-> "string", str |-> s]
JNumber(n) == [t |-> "number", num |-> n]
JArray(xs) == [t |-> "array", items |-> xs]
JObject(m) == [t |-> "object", map |-> m]

EmptyMap == [k \in {} |-> 0]

\* serde_json::Map::insert: a later value replaces an earlier one with the same key
MapInsert(m, k, v) ==
    [x \in (DOMAIN m) \cup {k} |-> IF x = k THEN v ELSE m[x]]

(***************************************************************************)
(* decode_bencoded_value: the two leaf branches, which neither loop nor    *)
(* recurse.  A result is Ok(value, consumed) or Panic(site).               *)
(***************************************************************************)
Ok(value, consumed) == [ok |-> TRUE, value |-> value, consumed |-> consumed]
Panic(site) == [ok |-> FALSE, site |-> site]

\* let end_of_str = start_of_str + length;
EndOfStr(start_of_str, length) == start_of_str + length

\* if end_of_str > encoded.len() { panic!(...) }
ExtendsBeyond(encoded, end_of_str) == end_of_str > ByteLen(encoded)

\* 1) Parse string: "<length>:<contents>"
DecodeString(encoded) ==
    LET colon_index == Find(encoded, Colon)
        length == ParseUsize(Slice(encoded, 0, colon_index))
        start_of_str == colon_index + 1
        end_of_str == EndOfStr(start_of_str, length.n)
    IN IF colon_index < 0 THEN Panic("unwrap: no ':'")
       ELSE IF ~length.ok THEN Panic("unwrap: length does not parse")
       ELSE IF ExtendsBeyond(encoded, end_of_str) THEN Panic("String length extends beyond encoded data length")
       ELSE IF ~CanSlice(encoded, start_of_str, end_of_str) THEN Panic("byte index is not a char boundary")
       ELSE Ok(JString(Slice(encoded, start_of_str, end_of_str)), end_of_str)

\* 2) Parse integer: "i<digits>e"
DecodeInteger(encoded) ==
    LET end_index == Find(encoded, LowerE)
        number == ParseI64(Slice(encoded, 1, end_index))
    IN IF end_index < 0 THEN Panic("unwrap: no 'e'")
       ELSE IF ~number.ok THEN Panic("unwrap: integer does not parse")
       ELSE Ok(JNumber(number.n), end_index + 1)

\* safe_char_at(s, char_index): NoChar stands for the panic of unwrap_or_else
safe_char_at(s, char_index) == CharsNth(s, char_index)

\* encoded.chars().next()
FirstChar(encoded) == CharsNth(encoded, 0)

IsAsciiDigit(c) == Len(c) = 1 /\ c[1] \in AsciiDigits
IsChar(c, b) == c = << b >>

(***************************************************************************)
(* The canonical encoder of the specification (section 4.2).  main.rs has  *)
(* no encoder for generic values; this one is written from the spec.       *)
(***************************************************************************)
RECURSIVE DecimalText(_)
DecimalText(n) ==
    IF n < 10 THEN << 48 + n >>
    ELSE DecimalText(n \div 10) \o << 48 + (n % 10) >>

IntegerText(n) == IF n < 0 THEN << 45 >> \o DecimalText(0 - n) ELSE DecimalText(n)

\* byte-lexicographic order on byte strings
RECURSIVE LexLess(_, _)
LexLess(a, b) ==
    IF b = << >> THEN FALSE
    ELSE IF a = << >> THEN TRUE
    ELSE IF a[1] # b[1] THEN a[1] < b[1]
    ELSE LexLess(Tail(a), Tail(b))

RECURSIVE SortedKeys(_)
SortedKeys(ks) ==
    IF ks = {} THEN << >>
    ELSE LET least == CHOOSE k \in ks : \A j \in ks \ {k} : LexLess(k, j)
         IN << least >> \o SortedKeys(ks \ {least})

RECURSIVE Encode(_)
EncodeBytes(s) == DecimalText(Len(s)) \o << Colon >> \o s

RECURSIVE EncodeAll(_)
EncodeAll(xs) == IF xs = << >> THEN << >> ELSE Encode(Head(xs)) \o EncodeAll(Tail(xs))

RECURSIVE EncodeEntries(_, _)
EncodeEntries(m, ks) ==
    IF ks = << >> THEN << >>
    ELSE EncodeBytes(Head(ks)) \o Encode(m[Head(ks)]) \o EncodeEntries(m, Tail(ks))

Encode(v) ==
    CASE v.t = "string" -> EncodeBytes(v.str)
      [] v.t = "number" -> << LowerI >> \o IntegerText(v.num) \o << LowerE >>
      [] v.t = "array" -> << LowerL >> \o EncodeAll(v.items) \o << LowerE >>
      [] v.t = "object" -> << LowerD >> \o EncodeEntries(v.map, SortedKeys(DOMAIN v.map)) \o << LowerE >>

\* a map document with its pairs written in the given order, duplicates and all
RECURSIVE EncodePairs(_)
EncodePairs(ps) ==
    IF ps = << >> THEN << >>
    ELSE EncodeBytes(Head(ps)[1]) \o Encode(Head(ps)[2]) \o EncodePairs(Tail(ps))

EncodeDict(ps) == << LowerD >> \o EncodePairs(ps) \o << LowerE >>

(***************************************************************************)
(* The inputs of a run                                                     *)
(***************************************************************************)
MaxElems == 2
MaxPairs == 2
MaxSpan == 3
MaxDeclared == 5
MaxContent == 2
MaxRawLen == 3
MaxBlobLen == 41

SeqsUpTo(S, n) == UNION { [1..k -> S] : k \in 0..n }

RECURSIVE Flatten(_)
Flatten(cs) == IF cs = << >> THEN << >> ELSE Head(cs) \o Flatten(Tail(cs))

\* "a" and the two-byte character U+00E9
Texts == { << 97 >>, << 195, 169 >> }
Numbers == { 0, -12 }

Leaves == { JString(s) : s \in Texts } \cup { JNumber(n) : n \in Numbers }
Lists1 == { JArray(xs) : xs \in SeqsUpTo(Leaves, MaxElems) }
Maps1 == { JObject(m) : m \in UNION { [ks -> Leaves] : ks \in SUBSET Texts } }
Nested ==
    LET inner == Lists1 \cup Maps1
    IN { JArray(<< x >>) : x \in inner }
       \cup { JArray(<< x, y >>) : x \in inner, y \in Leaves }
       \cup { JObject([k \in {key} |-> x]) : key \in Texts, x \in inner }

\* section 8 of the specification: spam, -42, [spam, eggs], {cow: moo, spam: eggs}, {spam: [a, b]}
ExampleValues ==
    { JString(<< 115, 112, 97, 109 >>), JNumber(-42),
      JArray(<< JString(<< 115, 112, 97, 109 >>), JString(<< 101, 103, 103, 115 >>) >>),
      JObject([k \in { << 99, 111, 119 >>, << 115, 112, 97, 109 >> } |-> IF k = << 99, 111, 119 >> THEN JString(<< 109, 111, 111 >>) ELSE JString(<< 101, 103, 103, 115 >>)]),
      JObject([k \in { << 115, 112, 97, 109 >> } |-> JArray(<< JString(<< 97 >>), JString(<< 98 >>) >>)]) }

Values == Leaves \cup Lists1 \cup Maps1 \cup Nested \cup ExampleValues

\* map documents whose pairs come in any order, repeated keys included;
\* section 8: d3:foo3:bar3:foo3:baze
PairSeqs ==
    SeqsUpTo(Texts \X Leaves, MaxPairs)
    \cup { << << << 102, 111, 111 >>, JString(<< 98, 97, 114 >>) >>, << << 102, 111, 111 >>, JString(<< 98, 97, 122 >>) >> >> }

\* i<span>e for every span over '0', '3', '-', '+'
IntegerDocs ==
    { << LowerI >> \o span \o << LowerE >> : span \in SeqsUpTo({ 48, 51, 45, 43 }, MaxSpan) }

\* <n>:<content> for declared lengths that fit the content and that do not
StringDocs ==
    { DecimalText(n) \o << Colon >> \o Flatten(cs) :
        n \in 0..MaxDeclared,
        cs \in SeqsUpTo({ << 97 >>, << 98 >>, << 195, 169 >> }, MaxContent) }

\* any short text over the characters the grammar reads, and U+00E9
RawChars ==
    { << 48 >>, << 49 >>, << 50 >>, << Colon >>, << 45 >>, << LowerI >>, << LowerL >>,
      << LowerD >>, << LowerE >>, << 195, 169 >> }
RawDocs == { Flatten(cs) : cs \in SeqsUpTo(RawChars, MaxRawLen) }

\* the pieces blob of a metainfo file: len bytes, all different within a record
Blob(len, seed) == [k \in 1..len |-> (seed + 37 * (k - 1)) % 256]
Blobs == { Blob(len, seed) : len \in 0..MaxBlobLen, seed \in { 0, 200 } }

\* what de::from_bytes can hand back
Torrents ==
    { [announce |-> "http://tracker/announce",
       info |-> [length |-> l, name |-> "sample.txt", piece_length |-> 32768, pieces |-> ps]] :
        l \in { 0, 92063 }, ps \in Blobs }

(***************************************************************************)
(* calculate_info_hash and extract_piece_hashes                            *)
(***************************************************************************)
SHA1_HASH_SIZE == 20

HexDigits == << "0", "1", "2", "3", "4", "5", "6", "7", "8", "9", "a", "b", "c", "d", "e", "f" >>

\* format!("{:02x}", byte)
Format02x(byte) == << HexDigits[(byte \div 16) + 1], HexDigits[(byte % 16) + 1] >>

\* chunk.iter().map(|byte| format!("{:02x}", byte)).collect()
RECURSIVE HashHex(_)
HashHex(chunk) ==
    IF chunk = << >> THEN << >> ELSE Format02x(Head(chunk)) \o HashHex(Tail(chunk))

\* slice::rchunks(size) in place of chunks: the windows are taken from the end
ChunksFromEnd(pieces, size) ==
    LET n == (Len(pieces) + size - 1) \div size
    IN [k \in 1..n |->
          SubSeq(pieces,
                 IF Len(pieces) - k * size > 0 THEN Len(pieces) - k * size + 1 ELSE 1,
                 Len(pieces) - (k - 1) * size)]

\* slice::chunks(size): consecutive windows of size elements, the last one perhaps shorter
Chunks(pieces, size) ==
    LET n == (Len(pieces) + size - 1) \div size
    IN [k \in 1..n |->
          SubSeq(pieces, (k - 1) * size + 1,
                 IF k * size < Len(pieces) THEN k * size ELSE Len(pieces))]

\* if pieces.len() % SHA1_HASH_SIZE != 0 { eprintln!(...); exit(1) }
InvalidPiecesLength(pieces) == Len(pieces) % SHA1_HASH_SIZE # 0

\* for chunk in pieces.chunks(SHA1_HASH_SIZE) { hashes.push(hash_hex) }
PieceHashesOf(pieces) ==
    LET chunks == Chunks(pieces, SHA1_HASH_SIZE)
    IN [k \in 1..Len(chunks) |-> HashHex(chunks[k])]

\* the digest of the re-encoded info dictionary; SHA-1 itself is left uninterpreted
InfoHashOf(info) == << "sha1", info >>

(***************************************************************************)
(* The state machine                                                       *)
(***************************************************************************)
NoResult == [ok |-> FALSE, site |-> ""]
NoValue == [t |-> "none"]
NoTorrent ==
    [announce |-> "", info |-> [length |-> 0, name |-> "", piece_length |-> 0, pieces |-> << >>]]
Running == -1

Line(label, text) == [label |-> label, text |-> text]

Start(a, origin) ==
    /\ args = a
    /\ src = origin
    /\ pc = "main"
    /\ arg = << >>
    /\ stack = << >>
    /\ ret = NoResult
    /\ torrent = NoTorrent
    /\ info_hash = << >>
    /\ piece_hashes = << >>
    /\ printed = 0
    /\ stdout = << >>
    /\ stderr = << >>
    /\ status = Running

Init ==
    \/ \E v \in Values : Start(<< "decode", Encode(v) >>, [kind |-> "value", value |-> v])
    \/ \E ps \in PairSeqs : Start(<< "decode", EncodeDict(ps) >>, [kind |-> "pairs", pairs |-> ps])
    \/ \E doc \in IntegerDocs \cup StringDocs \cup RawDocs :
          Start(<< "decode", doc >>, [kind |-> "raw"])
    \/ Start(<< "info", "sample.torrent" >>, [kind |-> "file"])
    \/ Start(<< >>, [kind |-> "none"])
    \/ Start(<< "decode" >>, [kind |-> "none"])
    \/ Start(<< "info" >>, [kind |-> "none"])
    \/ Start(<< "download", "sample.torrent" >>, [kind |-> "none"])

\* a panic unwinds the whole call stack; the runtime prints the message and exits with 101
PanicExit(site) ==
    /\ pc' = "exit"
    /\ status' = 101
    /\ stderr' = Append(stderr, site)
    /\ stack' = << >>
    /\ ret' = Panic(site)

\* std::process::exit(0) in place of exit(1)
ErrorExitZero(message) ==
    /\ pc' = "exit"
    /\ status' = 0
    /\ stderr' = Append(stderr, message)

\* eprintln!(message); std::process::exit(1)   and   main returning Err(e)
ErrorExit(message) ==
    /\ pc' = "exit"
    /\ status' = 1
    /\ stderr' = Append(stderr, message)

\* let command = &args[1]; ... &args[2]: an index out of bounds panics
MainMissingArgument ==
    /\ pc = "main"
    /\ \/ Len(args) < 1
       \/ Len(args) = 1 /\ args[1] \in { "decode", "info" }
    /\ PanicExit("index out of bounds")
    /\ UNCHANGED << args, src, arg, torrent, info_hash, piece_hashes, printed, stdout >>

\* if command == "decode" { let encoded_value = &args[2]; decode_bencoded_value(encoded_value)
MainDecode ==
    /\ pc = "main"
    /\ Len(args) >= 2 /\ args[1] = "decode"
    /\ arg' = args[2]
    /\ pc' = "decode"
    /\ UNCHANGED << args, src, stack, ret, torrent, info_hash, piece_hashes, printed,
                    stdout, stderr, status >>

\* else if command == "info" { let file_path = &args[2];
MainInfo ==
    /\ pc = "main"
    /\ Len(args) >= 2 /\ args[1] = "info"
    /\ pc' = "open"
    /\ UNCHANGED << args, src, arg, stack, ret, torrent, info_hash, piece_hashes, printed,
                    stdout, stderr, status >>

\* else { eprintln!("Unknown command: {}", command); std::process::exit(1); }
MainUnknown ==
    /\ pc = "main"
    /\ Len(args) >= 1 /\ args[1] \notin { "decode", "info" }
    /\ ErrorExit("Unknown command")
    /\ UNCHANGED << args, src, arg, stack, ret, torrent, info_hash, piece_hashes, printed,
                    stdout >>

(***************************************************************************)
(* decode_bencoded_value as steps: one activation record per list or map   *)
(* being decoded.  `arg` is the slice the next call receives, `ret` what   *)
(* the last call returned.                                                 *)
(***************************************************************************)
\* let mut list = Vec::new(); let mut map = Map::new(); let mut index = 1;
NewFrame(encoded, kind) ==
    [encoded |-> encoded, kind |-> kind, index |-> 1, list |-> << >>, map |-> EmptyMap,
     phase |-> "test", key_val |-> NoValue]

Top == stack[Len(stack)]
Popped == SubSeq(stack, 1, Len(stack) - 1)
WithTop(f) == [stack EXCEPT ![Len(stack)] = f]

\* the loop forgets index += used
AdvanceStuck(index, used) == index

\* index += used;
Advance(index, used) == index + used

\* index += 1; // skip 'e'
SkipE(index) == index + 1

\* Some(c) => c, None => panic!("Empty string while expecting bencoded data")
DecodeEmpty ==
    /\ pc = "decode"
    /\ FirstChar(arg) = NoChar
    /\ PanicExit("Empty string while expecting bencoded data")
    /\ UNCHANGED << args, src, arg, torrent, info_hash, piece_hashes, printed, stdout >>

\* the result of a leaf branch: returned to the caller, or a panic
Leaf(r) ==
    IF r.ok
    THEN /\ ret' = r
         /\ pc' = "returned"
         /\ UNCHANGED << stack, stderr, status >>
    ELSE PanicExit(r.site)

\* if first_char.is_ascii_digit() { ... }
DecodeStringCall ==
    /\ pc = "decode"
    /\ IsAsciiDigit(FirstChar(arg))
    /\ Leaf(DecodeString(arg))
    /\ UNCHANGED << args, src, arg, torrent, info_hash, piece_hashes, printed, stdout >>

\* else if first_char == 'i' { ... }
DecodeIntegerCall ==
    /\ pc = "decode"
    /\ IsChar(FirstChar(arg), LowerI)
    /\ Leaf(DecodeInteger(arg))
    /\ UNCHANGED << args, src, arg, torrent, info_hash, piece_hashes, printed, stdout >>

\* else if first_char == 'l' { let mut list = Vec::new(); let mut index = 1;
DecodeListCall ==
    /\ pc = "decode"
    /\ IsChar(FirstChar(arg), LowerL)
    /\ stack' = Append(stack, NewFrame(arg, "list"))
    /\ pc' = "while"
    /\ UNCHANGED << args, src, arg, ret, torrent, info_hash, piece_hashes, printed,
                    stdout, stderr, status >>

\* else if first_char == 'd' { let mut map = Map::new(); let mut index = 1;
DecodeDictCall ==
    /\ pc = "decode"
    /\ IsChar(FirstChar(arg), LowerD)
    /\ stack' = Append(stack, NewFrame(arg, "dict"))
    /\ pc' = "while"
    /\ UNCHANGED << args, src, arg, ret, torrent, info_hash, piece_hashes, printed,
                    stdout, stderr, status >>

\* else { panic!("Unhandled or invalid bencoded value: {}", encoded); }
DecodeUnhandled ==
    /\ pc = "decode"
    /\ FirstChar(arg) # NoChar
    /\ ~IsAsciiDigit(FirstChar(arg))
    /\ \A b \in { LowerI, LowerL, LowerD } : ~IsChar(FirstChar(arg), b)
    /\ PanicExit("Unhandled or invalid bencoded value")
    /\ UNCHANGED << args, src, arg, torrent, info_hash, piece_hashes, printed, stdout >>

\* while safe_char_at(encoded, index) != 'e': the character asked for does not exist
WhileRanOut ==
    /\ pc = "while"
    /\ safe_char_at(Top.encoded, Top.index) = NoChar
    /\ PanicExit("Ran out of characters")
    /\ UNCHANGED << args, src, arg, torrent, info_hash, piece_hashes, printed, stdout >>

\* the loop ends: index += 1; (Value::Array(list), index) or (Value::Object(map), index)
WhileEnd ==
    /\ pc = "while"
    /\ IsChar(safe_char_at(Top.encoded, Top.index), LowerE)
    /\ ret' = Ok(IF Top.kind = "list" THEN JArray(Top.list) ELSE JObject(Top.map),
                 SkipE(Top.index))
    /\ stack' = Popped
    /\ pc' = "returned"
    /\ UNCHANGED << args, src, arg, torrent, info_hash, piece_hashes, printed,
                    stdout, stderr, status >>

\* the loop body starts: decode_bencoded_value(&encoded[index..])
WhileBody ==
    /\ pc = "while"
    /\ safe_char_at(Top.encoded, Top.index) # NoChar
    /\ ~IsChar(safe_char_at(Top.encoded, Top.index), LowerE)
    /\ IF CanSliceFrom(Top.encoded, Top.index)
       THEN /\ arg' = SliceFrom(Top.encoded, Top.index)
            /\ stack' = WithTop([Top EXCEPT !.phase = IF Top.kind = "list" THEN "element" ELSE "key"])
            /\ pc' = "decode"
            /\ UNCHANGED << ret, stderr, status >>
       ELSE /\ PanicExit("byte index is not a char boundary")
            /\ UNCHANGED arg
    /\ UNCHANGED << args, src, torrent, info_hash, piece_hashes, printed, stdout >>

\* list.push(value); index += used;
ReturnedElement ==
    /\ pc = "returned"
    /\ stack # << >>
    /\ Top.kind = "list"
    /\ stack' = WithTop([Top EXCEPT !.list = Append(@, ret.value),
                                    !.index = Advance(@, ret.consumed),
                                    !.phase = "test"])
    /\ pc' = "while"
    /\ UNCHANGED << args, src, arg, ret, torrent, info_hash, piece_hashes, printed,
                    stdout, stderr, status >>

\* index += used_key; then the value: decode_bencoded_value(&encoded[index..])
ReturnedKey ==
    /\ pc = "returned"
    /\ stack # << >>
    /\ Top.kind = "dict" /\ Top.phase = "key"
    /\ LET index == Advance(Top.index, ret.consumed)
       IN IF CanSliceFrom(Top.encoded, index)
          THEN /\ arg' = SliceFrom(Top.encoded, index)
               /\ stack' = WithTop([Top EXCEPT !.key_val = ret.value,
                                               !.index = index,
                                               !.phase = "value"])
               /\ pc' = "decode"
               /\ UNCHANGED << ret, stderr, status >>
          ELSE /\ PanicExit("byte index is not a char boundary")
               /\ UNCHANGED arg
    /\ UNCHANGED << args, src, torrent, info_hash, piece_hashes, printed, stdout >>

\* index += used_val; key_val.as_str().expect(...); map.insert(key_str, val_val);
ReturnedValue ==
    /\ pc = "returned"
    /\ stack # << >>
    /\ Top.kind = "dict" /\ Top.phase = "value"
    /\ IF Top.key_val.t = "string"
       THEN /\ stack' = WithTop([Top EXCEPT !.map = MapInsert(@, Top.key_val.str, ret.value),
                                            !.index = Advance(@, ret.consumed),
                                            !.key_val = NoValue,
                                            !.phase = "test"])
            /\ pc' = "while"
            /\ UNCHANGED << ret, stderr, status >>
       ELSE PanicExit("Bencode dictionary key wasn't a string!")
    /\ UNCHANGED << args, src, arg, torrent, info_hash, piece_hashes, printed, stdout >>

\* let (decoded_value, _used) = ...; println!("{}", decoded_value);
DecodePrint ==
    /\ pc = "returned"
    /\ stack = << >>
    /\ stdout' = Append(stdout, Line("", ret.value))
    /\ pc' = "finish"
    /\ UNCHANGED << args, src, arg, stack, ret, torrent, info_hash, piece_hashes, printed,
                    stderr, status >>

(***************************************************************************)
(* main, info mode                                                         *)
(***************************************************************************)
\* File::open(file_path)?  -- the error leaves main as Err(e)
OpenFails ==
    /\ pc = "open"
    /\ ErrorExit("Error: open")
    /\ UNCHANGED << args, src, arg, stack, ret, torrent, info_hash, piece_hashes, printed,
                    stdout >>

OpenOk ==
    /\ pc = "open"
    /\ pc' = "read"
    /\ UNCHANGED << args, src, arg, stack, ret, torrent, info_hash, piece_hashes, printed,
                    stdout, stderr, status >>

\* file.read_to_end(&mut buffer)?
ReadFails ==
    /\ pc = "read"
    /\ ErrorExit("Error: read")
    /\ UNCHANGED << args, src, arg, stack, ret, torrent, info_hash, piece_hashes, printed,
                    stdout >>

ReadOk ==
    /\ pc = "read"
    /\ pc' = "parse"
    /\ UNCHANGED << args, src, arg, stack, ret, torrent, info_hash, piece_hashes, printed,
                    stdout, stderr, status >>

\* match de::from_bytes(&buffer) { Err(e) => { eprintln!(...); exit(1) } }
ParseFails ==
    /\ pc = "parse"
    /\ ErrorExit("Failed to parse .torrent file")
    /\ UNCHANGED << args, src, arg, stack, ret, torrent, info_hash, piece_hashes, printed,
                    stdout >>

\* match de::from_bytes(&buffer) { Ok(t) => t }
ParseOk ==
    /\ pc = "parse"
    /\ torrent' \in Torrents
    /\ pc' = "hash"
    /\ UNCHANGED << args, src, arg, stack, ret, info_hash, piece_hashes, printed,
                    stdout, stderr, status >>

\* calculate_info_hash: ser::to_bytes(info) fails
InfoHashFails ==
    /\ pc = "hash"
    /\ ErrorExit("Failed to Bencode 'info' dictionary")
    /\ UNCHANGED << args, src, arg, stack, ret, torrent, info_hash, piece_hashes, printed,
                    stdout >>

\* let info_hash = calculate_info_hash(&torrent.info);
InfoHashOk ==
    /\ pc = "hash"
    /\ info_hash' = InfoHashOf(torrent.info)
    /\ pc' = "pieces"
    /\ UNCHANGED << args, src, arg, stack, ret, torrent, piece_hashes, printed,
                    stdout, stderr, status >>

\* extract_piece_hashes: eprintln!("Invalid pieces length: ..."); exit(1)
PiecesInvalid ==
    /\ pc = "pieces"
    /\ InvalidPiecesLength(torrent.info.pieces)
    /\ ErrorExit("Invalid pieces length: not a multiple of 20 bytes")
    /\ UNCHANGED << args, src, arg, stack, ret, torrent, info_hash, piece_hashes, printed,
                    stdout >>

\* extract_piece_hashes without its length check: a short last chunk is rendered too
PiecesUnchecked ==
    /\ pc = "pieces"
    /\ piece_hashes' = PieceHashesOf(torrent.info.pieces)
    /\ pc' = "print tracker"
    /\ UNCHANGED << args, src, arg, stack, ret, torrent, info_hash, printed,
                    stdout, stderr, status >>

\* let piece_hashes = extract_piece_hashes(&torrent.info.pieces);
PiecesOk ==
    /\ pc = "pieces"
    /\ ~InvalidPiecesLength(torrent.info.pieces)
    /\ piece_hashes' = PieceHashesOf(torrent.info.pieces)
    /\ pc' = "print tracker"
    /\ UNCHANGED << args, src, arg, stack, ret, torrent, info_hash, printed,
                    stdout, stderr, status >>

Println(at, line, next) ==
    /\ pc = at
    /\ stdout' = Append(stdout, line)
    /\ pc' = next
    /\ UNCHANGED << args, src, arg, stack, ret, torrent, info_hash, piece_hashes, printed,
                    stderr, status >>

\* println!("Tracker URL: {}", torrent.announce);
PrintTracker == Println("print tracker", Line("Tracker URL: ", torrent.announce), "print length")

\* println!("Length: {}", torrent.info.length);
PrintLength == Println("print length", Line("Length: ", torrent.info.length), "print info hash")

\* println!("Info Hash: {}", info_hash);
PrintInfoHash == Println("print info hash", Line("Info Hash: ", info_hash), "print piece length")

\* println!("Piece Length: {}", torrent.info.piece_length);
PrintPieceLength ==
    Println("print piece length", Line("Piece Length: ", torrent.info.piece_length), "print header")

\* println!("Piece Hashes:");
PrintHeader == Println("print header", Line("Piece Hashes:", << >>), "print pieces")

\* for hash in piece_hashes.iter().rev(): the records are written last first
PrintPieceReversed ==
    /\ pc = "print pieces"
    /\ printed < Len(piece_hashes)
    /\ stdout' = Append(stdout, Line("", piece_hashes[Len(piece_hashes) - printed]))
    /\ printed' = printed + 1
    /\ UNCHANGED << args, src, pc, arg, stack, ret, torrent, info_hash, piece_hashes,
                    stderr, status >>

\* for hash in piece_hashes { println!("{}", hash); }
PrintPiece ==
    /\ pc = "print pieces"
    /\ printed < Len(piece_hashes)
    /\ stdout' = Append(stdout, Line("", piece_hashes[printed + 1]))
    /\ printed' = printed + 1
    /\ UNCHANGED << args, src, pc, arg, stack, ret, torrent, info_hash, piece_hashes,
                    stderr, status >>

PrintDone ==
    /\ pc = "print pieces"
    /\ printed = Len(piece_hashes)
    /\ pc' = "finish"
    /\ UNCHANGED << args, src, arg, stack, ret, torrent, info_hash, piece_hashes, printed,
                    stdout, stderr, status >>

\* Ok(())
MainOk ==
    /\ pc = "finish"
    /\ pc' = "exit"
    /\ status' = 0
    /\ UNCHANGED << args, src, arg, stack, ret, torrent, info_hash, piece_hashes, printed,
                    stdout, stderr >>

Next ==
    \/ MainMissingArgument \/ MainDecode \/ MainInfo \/ MainUnknown
    \/ DecodeEmpty \/ DecodeStringCall \/ DecodeIntegerCall \/ DecodeListCall
    \/ DecodeDictCall \/ DecodeUnhandled
    \/ WhileRanOut \/ WhileEnd \/ WhileBody
    \/ ReturnedElement \/ ReturnedKey \/ ReturnedValue \/ DecodePrint
    \/ OpenFails \/ OpenOk \/ ReadFails \/ ReadOk \/ ParseFails \/ ParseOk
    \/ InfoHashFails \/ InfoHashOk \/ PiecesInvalid \/ PiecesOk
    \/ PrintTracker \/ PrintLength \/ PrintInfoHash \/ PrintPieceLength \/ PrintHeader
    \/ PrintPiece \/ PrintDone \/ MainOk

Spec == Init /\ [][Next]_vars

\* the program is sequential and nothing suspends it: an enabled step is taken
FairSpec == Spec /\ WF_vars(Next)

(***************************************************************************)
(* Properties                                                              *)
(***************************************************************************)
DecodeMode == Len(args) = 2 /\ args[1] = "decode"
InfoMode == Len(args) = 2 /\ args[1] = "info"
Exited == pc = "exit"

IsPrefix(a, b) == Len(a) <= Len(b) /\ a = SubSeq(b, 1, Len(a))

\* C1: decoding the canonical encoding of a value gives that value back.
RoundTrip ==
    (Exited /\ src.kind = "value") => (ret.ok /\ ret.value = src.value)

\* C2: in the list and map loops the position tested for 'e' is the byte offset at
\* which the next element is decoded, and the decode of a well-formed list or map
\* ends one past its own terminating 'e'.
LoopTestsByteOffset ==
    (src.kind = "value" /\ src.value.t \in { "array", "object" }) =>
        /\ pc = "while" => NthCharStart(Top.encoded, Top.index) = Top.index
        /\ Exited => (ret.ok /\ ret.consumed = Len(args[2]))

\* the spans the grammar allows between 'i' and 'e': -?[0-9]+, no leading zero, no -0
StrictInteger(span) ==
    LET digits == IF span # << >> /\ span[1] = 45 THEN Tail(span) ELSE span
    IN /\ AllDigits(digits)
       /\ Len(digits) = 1 \/ digits[1] # 48
       /\ span # << 45, 48 >>

\* C3: an integer whose span is not a strict decimal is rejected, no value returned.
MalformedIntegerRejected ==
    (/\ Exited /\ DecodeMode
     /\ args[2] # << >> /\ args[2][1] = LowerI
     /\ Find(args[2], LowerE) >= 1
     /\ ~StrictInteger(Slice(args[2], 1, Find(args[2], LowerE))))
    => (~ret.ok /\ stdout = << >>)

HasRepeatedKey(ps) == \E a, b \in 1..Len(ps) : a < b /\ ps[a][1] = ps[b][1]

\* C4: a map in which a key repeats is rejected, no map returned.
DuplicateKeyRejected ==
    (Exited /\ src.kind = "pairs" /\ HasRepeatedKey(src.pairs))
    => (~ret.ok /\ stdout = << >>)

\* the input is <digits>:<rest>
IsStringDoc == 
    /\ DecodeMode
    /\ Find(args[2], Colon) >= 1
    /\ AllDigits(SubSeq(args[2], 1, Find(args[2], Colon)))
Declared == DecimalValue(SubSeq(args[2], 1, Find(args[2], Colon)))
Remaining == Len(args[2]) - (Find(args[2], Colon) + 1)

\* C5: a byte string whose declared length exceeds the bytes left is rejected; one
\* whose declared length fits yields exactly the next n bytes and colon_index+1+n.
StringLengthChecked ==
    (Exited /\ IsStringDoc) =>
        IF Remaining < Declared
        THEN ~ret.ok /\ stdout = << >>
        ELSE /\ ret.ok
             /\ ret.value = JString(SubSeq(args[2], Find(args[2], Colon) + 2,
                                           Find(args[2], Colon) + 1 + Declared))
             /\ ret.consumed = Find(args[2], Colon) + 1 + Declared

HexValue(ch) == (CHOOSE k \in 1..16 : HexDigits[k] = ch) - 1

Pieces == torrent.info.pieces
Parsed == torrent # NoTorrent
Segmented ==
    /\ InfoMode
    /\ \/ pc \in { "print tracker", "print length", "print info hash", "print piece length",
                   "print header", "print pieces", "finish" }
       \/ Exited /\ status = 0

\* C6: a blob of 20*k bytes yields k records, record i rendering bytes 20*i..20*i+19,
\* every byte once and in order; any other length fails and yields no record.
PieceSegmentation ==
    /\ Segmented =>
          /\ Len(Pieces) % 20 = 0
          /\ Len(piece_hashes) * 20 = Len(Pieces)
          /\ \A k \in 1..Len(piece_hashes) : Len(piece_hashes[k]) = 40
          /\ \A j \in 0..(Len(Pieces) - 1) :
                LET record == piece_hashes[(j \div 20) + 1]
                    at == 2 * (j % 20)
                IN 16 * HexValue(record[at + 1]) + HexValue(record[at + 2]) = Pieces[j + 1]
    /\ (Parsed /\ Len(Pieces) % 20 # 0) =>
          /\ piece_hashes = << >>
          /\ ~Segmented
          /\ Exited => status # 0

PieceSegmentationWitness ==
    /\ Exited /\ status = 0 /\ InfoMode
    /\ Len(Pieces) = 40 /\ Len(piece_hashes) = 2

\* the run went through every step of its mode without an error
Succeeded ==
    \/ /\ DecodeMode
       /\ ret.ok
    \/ /\ InfoMode
       /\ Parsed
       /\ info_hash # << >>
       /\ Len(Pieces) % 20 = 0
       /\ printed = Len(piece_hashes)

\* C7: a run exits with status zero exactly when no error occurred; on an error the
\* status is non-zero and the diagnostic is on the error stream, not the output stream.
ExitBehaviour ==
    Exited =>
        /\ status # Running
        /\ (status = 0) <=> (Succeeded /\ stderr = << >>)
        /\ status # 0 => (Len(stderr) = 1 /\ stdout = << >>)

ExitBehaviourWitness ==
    /\ Exited /\ InfoMode /\ Parsed
    /\ status = 1
    /\ stderr = << "Invalid pieces length: not a multiple of 20 bytes" >>

\* the report of a successful info-mode run
ExpectedReport ==
    << Line("Tracker URL: ", torrent.announce),
       Line("Length: ", torrent.info.length),
       Line("Info Hash: ", InfoHashOf(torrent.info)),
       Line("Piece Length: ", torrent.info.piece_length),
       Line("Piece Hashes:", << >>) >>
    \o [k \in 1..(Len(Pieces) \div 20) |->
          Line("", HashHex(SubSeq(Pieces, 20 * (k - 1) + 1, 20 * k)))]

\* C8: in info mode the lines are written in the order tracker URL, length, info
\* digest, piece length, then the piece digests in blob order, none twice.
InfoOutputOrder ==
    InfoMode =>
        /\ IsPrefix(stdout, ExpectedReport)
        /\ (Exited /\ status = 0) => stdout = ExpectedReport

InfoOutputOrderWitness ==
    /\ Exited /\ status = 0 /\ InfoMode
    /\ Len(stdout) = 7

ReportReady ==
    /\ Parsed
    /\ info_hash = InfoHashOf(torrent.info)
    /\ Len(Pieces) % 20 = 0
    /\ Len(piece_hashes) * 20 = Len(Pieces)

\* C9 as stated: nothing is written in info mode before parsing, digest and
\* segmentation succeeded, nor in decode mode unless the whole input decoded.
NothingBeforeWholeInput ==
    /\ (InfoMode /\ stdout # << >>) => ReportReady
    /\ (DecodeMode /\ stdout # << >>) => (ret.ok /\ ret.consumed = Len(args[2]))
    /\ (Exited /\ status # 0) => stdout = << >>

\* C9 as amended: in decode mode nothing is written unless the top-level call of
\* decode_bencoded_value returned a value; bytes after that value are not looked at.
AllOrNothing ==
    /\ (InfoMode /\ stdout # << >>) => ReportReady
    /\ (DecodeMode /\ stdout # << >>) => (ret.ok /\ stack = << >> /\ ret.consumed <= Len(args[2]))
    /\ (Exited /\ status # 0) => stdout = << >>

AllOrNothingWitness ==
    /\ Exited /\ InfoMode /\ Parsed
    /\ Len(Pieces) = 41
    /\ info_hash # << >>
    /\ status # 0 /\ stdout = << >>

Min(a, b) == IF a < b THEN a ELSE b

\* a call returned to a loop: that loop's index grew; no other step moves an index back
LoopAdvances ==
    /\ \A d \in 1..Min(Len(stack), Len(stack')) : stack'[d].index >= stack[d].index
    /\ (pc = "returned" /\ stack # << >> /\ stack' # << >>) =>
          /\ ret.consumed >= 1
          /\ stack'[Len(stack)].index > Top.index

IndexInBounds == \A d \in 1..Len(stack) : stack[d].index <= Len(stack[d].encoded)

\* C10: every decode returns or fails: each call that returns consumed at least one
\* byte, each loop index only grows and stays within its input, and the run ends.
DecodeTerminates ==
    /\ []IndexInBounds
    /\ [][LoopAdvances]_vars
    /\ <>Exited

DecodeTerminatesWitness ==
    /\ Exited /\ DecodeMode /\ status = 0
    /\ src.kind = "value" /\ src.value \in Nested
    /\ ret.ok /\ ret.value = src.value

====
